---------------------------- MODULE Spec2Model ----------------------------
(***************************************************************************)
(* A model of wechat-annual.py: the time window of WeChat.__init__, the    *)
(* tag-length-value decoder parse_remark of WeChat.prepare_contact, and    *)
(* the pipeline of WeChat.output_data with its on-disk report cache.       *)
(*                                                                         *)
(* Three specifications share the module:                                  *)
(*   SpecWindow  the window computed by __init__ for a reference instant,  *)
(*   SpecTlv     parse_remark run loop iteration by loop iteration,        *)
(*   Spec        a sequence of output_data runs against one working        *)
(*               directory.                                                *)
(***************************************************************************)
EXTENDS Integers, Sequences, FiniteSets, TLC

VARIABLES
    \* ---- WeChat.__init__ (SpecWindow)
    now,        \* datetime.now(): [year, month, day]
    year,       \* self.year
    st,         \* self.st, seconds since the epoch
    et,         \* self.et
    wpc,        \* "init" before the assignments of lines 82-85, "done" after
    \* ---- parse_remark (SpecTlv)
    pairs,      \* the (tag, text) pairs the blob was encoded from
    cut,        \* how many bytes were cut off the end of the encoding
    blob,       \* parse_remark's argument
    csor,       \* parse_remark's cursor, 0-based as in the source
    data,       \* parse_remark's dict: tag -> decoded text
    tlvpc,      \* "loop", "returned" or "raised"
    tlverr,     \* the exception parse_remark raised, "" if none
    series,     \* the returned pd.Series: label -> text
    \* ---- WeChat.output_data (Spec)
    cache,      \* the working directory: account id -> the file <id>.json
    pc,         \* the position of the current run of output_data
    runs,       \* how many runs were started
    wxfile,     \* self.wxfile: what prepare_wxfile read from the manifest
    myid,       \* self.myid
    mymmb,      \* prepare_myself_info's settings blob
    myname,     \* self.myname
    myheadimg,  \* self.myheadimg
    friends,    \* self.friends, or unset
    groups,     \* self.groups, or unset
    msg_friend, \* output_data's msg_friend
    msg_group,  \* output_data's msg_group
    sessions,   \* output_data's sessions
    stats,      \* output_data's aggregates of lines 259-303
    output,     \* output_data's output, and what it returns
    shards,     \* the message shards of the backup, as get_message met them
    exc         \* the exception that left output_data, if one did

windowVars == <<now, year, st, et, wpc>>
tlvVars == <<pairs, cut, blob, csor, data, tlvpc, tlverr, series>>
selfVars == <<wxfile, myid, mymmb, myname, myheadimg, friends, groups>>
localVars == <<msg_friend, msg_group, sessions, stats, output>>
runVars == <<cache, pc, runs, selfVars, shards, localVars, exc>>
vars == <<windowVars, tlvVars, runVars>>

-----------------------------------------------------------------------------
(* Generic helpers *)

Range(s) == {s[i] : i \in DOMAIN s}

\* Python's s[a:b] for 0 <= a, on a TLA+ sequence (1-based): the slice is
\* clamped to the end of s and never raises.
Slice(s, a, b) ==
    LET hi == IF b < Len(s) THEN b ELSE Len(s)
    IN  IF a >= hi THEN <<>> ELSE [i \in 1..(hi - a) |-> s[a + i]]

EmptyMap == [x \in {} |-> 0]

-----------------------------------------------------------------------------
(* WeChat.__init__, lines 82-85 *)

FirstYear == 2020
LastYear == 2025

IsLeap(y) == (y % 4 = 0 /\ y % 100 # 0) \/ y % 400 = 0

\* Days from 1970-01-01 to January 1st of year y.
RECURSIVE DaysToYear(_)
DaysToYear(y) ==
    IF y <= 1970 THEN 0
    ELSE DaysToYear(y - 1) + (IF IsLeap(y - 1) THEN 366 ELSE 365)

\* datetime(y, 1, 1).timestamp(): midnight of January 1st of year y, in
\* seconds since the epoch.  The naive datetime is read in local time; the
\* model takes a zone whose offset from UTC is 0.
NewYearTimestamp(y) == DaysToYear(y) * 86400

\* line 83: now.year - 1 if now.month < 3 else now.year
WindowYearLate(n) == IF n.month <= 3 THEN n.year - 1 ELSE n.year

WindowYear(n) == IF n.month < 3 THEN n.year - 1 ELSE n.year

\* lines 82-85
InitWindow ==
    /\ wpc = "init"
    /\ year' = WindowYear(now)
    /\ st' = NewYearTimestamp(year')
    /\ et' = NewYearTimestamp(year' + 1)
    /\ wpc' = "done"
    /\ UNCHANGED <<now, tlvVars, runVars>>

-----------------------------------------------------------------------------
(* parse_remark, lines 144-164, and bytes.decode() *)

MaxPairs == 2

\* lines 144-153
remark_fields ==
    (10 :> "nickname") @@ (18 :> "id_new") @@ (26 :> "alias") @@
    (34 :> "alias_pinyin") @@ (42 :> "alias_PY") @@
    (50 :> "nickname_pinyin") @@ (58 :> "description") @@ (66 :> "tag")

IsCont(b) == b >= 128 /\ b <= 191

\* How many bytes the UTF-8 sequence led by byte b has; 0 for a byte that
\* cannot lead one (a continuation byte, the overlong leads C0 and C1, F5..FF).
Utf8Width(b) ==
    IF b < 128 THEN 1
    ELSE IF b >= 194 /\ b <= 223 THEN 2
    ELSE IF b >= 224 /\ b <= 239 THEN 3
    ELSE IF b >= 240 /\ b <= 244 THEN 4
    ELSE 0

\* bytes.decode() (UTF-8, strict): the code points, or ok = FALSE where
\* Python raises UnicodeDecodeError.
RECURSIVE Utf8Decode(_)
Utf8Decode(bs) ==
    IF bs = <<>> THEN [ok |-> TRUE, text |-> <<>>]
    ELSE
      LET b1 == bs[1]
          n == Len(bs)
          w == Utf8Width(b1)
          wellformed ==
              /\ w > 0
              /\ n >= w
              /\ \A i \in 2..w : IsCont(bs[i])
              /\ (b1 = 224 => bs[2] >= 160)
              /\ (b1 = 237 => bs[2] <= 159)
              /\ (b1 = 240 => bs[2] >= 144)
              /\ (b1 = 244 => bs[2] <= 143)
          cp == CASE w = 1 -> b1
                  [] w = 2 -> (b1 - 192) * 64 + (bs[2] - 128)
                  [] w = 3 -> (b1 - 224) * 4096 + (bs[2] - 128) * 64
                                + (bs[3] - 128)
                  [] w = 4 -> (b1 - 240) * 262144 + (bs[2] - 128) * 4096
                                + (bs[3] - 128) * 64 + (bs[4] - 128)
          rest == Utf8Decode(SubSeq(bs, w + 1, n))
      IN  IF ~wellformed THEN [ok |-> FALSE, text |-> <<>>]
          ELSE IF ~rest.ok THEN [ok |-> FALSE, text |-> <<>>]
          ELSE [ok |-> TRUE, text |-> <<cp>> \o rest.text]

\* str.encode('utf-8') of one code point.
Utf8Encode(cp) ==
    IF cp < 128 THEN <<cp>>
    ELSE IF cp < 2048 THEN <<192 + (cp \div 64), 128 + (cp % 64)>>
    ELSE IF cp < 65536 THEN
        <<224 + (cp \div 4096), 128 + ((cp \div 64) % 64), 128 + (cp % 64)>>
    ELSE <<240 + (cp \div 262144), 128 + ((cp \div 4096) % 64),
           128 + ((cp \div 64) % 64), 128 + (cp % 64)>>

RECURSIVE Utf8EncodeText(_)
Utf8EncodeText(text) ==
    IF text = <<>> THEN <<>>
    ELSE Utf8Encode(Head(text)) \o Utf8EncodeText(Tail(text))

\* The blob a sequence of (tag, text) pairs is stored as: per pair the tag
\* byte, the length byte and the UTF-8 bytes of the text.
RECURSIVE EncodeRemark(_)
EncodeRemark(ps) ==
    IF ps = <<>> THEN <<>>
    ELSE LET bytes == Utf8EncodeText(Head(ps)[2])
         IN  <<Head(ps)[1], Len(bytes)>> \o bytes \o EncodeRemark(Tail(ps))

\* A plausible slip of line 162: a tag already read keeps its first value.
PutFirst(d, k, v) ==
    IF k \in DOMAIN d THEN d
    ELSE [x \in DOMAIN d \cup {k} |-> IF x = k THEN v ELSE d[x]]

\* data[dtype] = ... (line 162)
Put(d, k, v) == [x \in DOMAIN d \cup {k} |-> IF x = k THEN v ELSE d[x]]

\* One iteration of the while loop, lines 158-163, entered with c < len(b).
\* b[c] with c >= len(b) raises IndexError; the slice b[c:c+step] never does.
RemarkIter(b, c, d) ==
    LET dtype == b[c + 1]
    IN  IF c + 1 >= Len(b)
        THEN [err |-> "IndexError", csor |-> c + 1, data |-> d]
        ELSE LET step == b[c + 2]
                 dec == Utf8Decode(Slice(b, c + 2, c + 2 + step))
             IN  IF ~dec.ok
                 THEN [err |-> "UnicodeDecodeError", csor |-> c + 2, data |-> d]
                 ELSE [err |-> "", csor |-> c + 2 + step,
                       data |-> Put(d, dtype, dec.text)]

\* The label rename(remark_fields) gives a tag: its name in the table, or
\* the raw tag.
Label(t) ==
    IF t \in DOMAIN remark_fields THEN [name |-> remark_fields[t]]
    ELSE [tag |-> t]

\* pd.Series(data).rename(remark_fields), line 164
RenameSeries(d) ==
    [k \in {Label(t) : t \in DOMAIN d} |->
        d[CHOOSE t \in DOMAIN d : Label(t) = k]]

\* parse_remark as a function: the exception it raises ("" if none) and the
\* series it returns.
RECURSIVE ParseRemarkFrom(_, _, _)
ParseRemarkFrom(b, c, d) ==
    IF c < Len(b)
    THEN LET r == RemarkIter(b, c, d)
         IN  IF r.err # "" THEN [err |-> r.err, series |-> EmptyMap]
             ELSE ParseRemarkFrom(b, r.csor, r.data)
    ELSE [err |-> "", series |-> RenameSeries(d)]

ParseRemark(b) == ParseRemarkFrom(b, 0, EmptyMap)

\* Inputs of SpecTlv: two named tags and one the table does not know; texts
\* of 0, 1, 2 and 3 UTF-8 bytes.
SampleTags == {10, 18, 7}
SampleTexts == {<<>>, <<65>>, <<233>>, <<24494>>}
PairSeqs == UNION {[1..n -> SampleTags \X SampleTexts] : n \in 0..MaxPairs}

\* while csor < len(blob): one iteration
ParseRemarkIter ==
    /\ tlvpc = "loop"
    /\ csor < Len(blob)
    /\ LET r == RemarkIter(blob, csor, data)
       IN  IF r.err # ""
           THEN /\ tlvpc' = "raised"
                /\ tlverr' = r.err
                /\ UNCHANGED <<csor, data>>
           ELSE /\ csor' = r.csor
                /\ data' = r.data
                /\ UNCHANGED <<tlvpc, tlverr>>
    /\ UNCHANGED <<pairs, cut, blob, series, windowVars, runVars>>

\* the loop ends: return pd.Series(data).rename(remark_fields)
ParseRemarkReturn ==
    /\ tlvpc = "loop"
    /\ csor >= Len(blob)
    /\ series' = RenameSeries(data)
    /\ tlvpc' = "returned"
    /\ UNCHANGED <<pairs, cut, blob, csor, data, tlverr, windowVars, runVars>>

-----------------------------------------------------------------------------
(* WeChat.output_data: values and inputs *)

MaxRuns == 2
MaxShards == 2
MaxFriends == 5
MaxGroups == 5
MaxStickers == 4
MaxClips == 4

\* The self-account identifiers a backup may belong to.
Accounts == {"wxid_alice1", "wxid_bobby2"}

\* datetime.now() of every run of Spec.
RunInstant == [year |-> 2024, month |-> 3, day |-> 1]

\* Python's None, where a string may stand.
None == "None"

\* "微信用户", line 123, as code points
DefaultName == <<24494, 20449, 29992, 25143>>

\* An exception that leaves output_data: its type, the method and the line
\* that raised it.
NoExc == [type |-> "", at |-> "", line |-> 0]
Raised(t, a, l) == [type |-> t, at |-> a, line |-> l]

NoReport == [none |-> TRUE]
NoFile == [exists |-> FALSE, text |-> <<>>]

\* json.dump(output, fp): the document, written entry by entry.
JsonDump(r) ==
    << [key |-> "myself", value |-> r.myself],
       [key |-> "friend", value |-> r.friend],
       [key |-> "group", value |-> r.group],
       [key |-> "message_clip", value |-> r.message_clip] >>

\* json.loads(text): the report of a whole document; text that stops early
\* is no document and raises JSONDecodeError.
JsonLoads(t) ==
    IF Len(t) = 4
    THEN [ok |-> TRUE,
          value |-> [myself |-> t[1].value, friend |-> t[2].value,
                     group |-> t[3].value, message_clip |-> t[4].value]]
    ELSE [ok |-> FALSE, value |-> NoReport]

\* What the query of prepare_wxfile can return: the settings files matching
\* mmptn (by account id), whether the contact and session databases are
\* listed, and how many message_<n>.sqlite shards are.
Manifests ==
    [settings : {<<>>} \cup {<<a>> : a \in Accounts},
     contactDb : BOOLEAN,
     shards : 0..MaxShards,
     sessionDb : BOOLEAN]

NoWxfile == [settings |-> <<>>, contactDb |-> FALSE, shards |-> 0,
             sessionDb |-> FALSE]

\* The settings file: unreadable, or the matches (bytes) of the name pattern
\* of line 120 and the matches of the avatar pattern of line 121.
SettingsBlobs ==
    {[readable |-> FALSE, names |-> <<>>, headimgs |-> <<>>]} \cup
    [readable : {TRUE},
     names : {<<>>, << <<200>> >>, << <<65, 108>> >>},
     headimgs : {<<>>, <<"http://wx.qlogo.cn/mmhead/self/132">>}]

NoBlob == [readable |-> FALSE, names |-> <<>>, headimgs |-> <<>>]

FriendName(i) == "friend" \o ToString(i)
GroupName(i) == ToString(i) \o "@chatroom"
ChatroomNames == {GroupName(i) : i \in 1..MaxGroups}

\* userName LIKE "%@chatroom" (line 141), UsrName.str.contains("@chatroom")
IsChatroom(u) == u \in ChatroomNames

Cell(bytes) == [null |-> FALSE, bytes |-> bytes]
NullCell == [null |-> TRUE, bytes |-> <<>>]
\* A blob column as the patterns of lines 166-169 see it: the matches of
\* each pattern, in order.
Scan(ms) == [null |-> FALSE, matches |-> ms]
NullScan == [null |-> TRUE, matches |-> <<>>]
\* dbContactChatRoom: the matches of the founder pattern (line 167) and of
\* the <RoomData> pattern (line 168).
Room(fs, rs) == [null |-> FALSE, founder |-> fs, room |-> rs]
NullRoom == [null |-> TRUE, founder |-> <<>>, room |-> <<>>]

\* The <RoomData> block of group i, and the UserName of its Member elements.
RoomXml(i) == "<RoomData>" \o ToString(i) \o "</RoomData>"
RoomMembers(i) ==
    {FriendName(j) : j \in 1..i} \cup {"stranger" \o ToString(i)}

\* What can be wrong with the first friend row and the first group row.
FriendFaults == {"none", "tag_only", "undecodable", "null_remark",
                 "null_headimg"}
GroupFaults == {"none", "tag_only", "null_chatroom"}

RemarkCell(letter, fault) ==
    CASE fault = "tag_only" -> Cell(<<10>>)
      [] fault = "undecodable" -> Cell(<<10, 1, 200>>)
      [] fault = "null_remark" -> NullCell
      [] OTHER -> Cell(EncodeRemark(<< <<10, <<letter>>>> >>))

\* Row i of the Friend table for a friend: odd type, a secret.
FriendRecord(i, fault) ==
    [userName |-> FriendName(i), type |-> 3, secret |-> TRUE,
     dbContactRemark |-> RemarkCell(64 + i, fault),
     dbContactHeadImage |->
        IF fault = "null_headimg" THEN NullScan
        ELSE Scan(<<"http://wx.qlogo.cn/mmhead/" \o ToString(i)>>),
     dbContactProfile |-> Scan(<<ToString(i % 3)>>),
     dbContactChatRoom |-> NullRoom]

\* Row i of the Friend table for a group: founder and <RoomData> block.
GroupRecord(i, fault) ==
    [userName |-> GroupName(i), type |-> 2, secret |-> FALSE,
     dbContactRemark |-> RemarkCell(96 + i, fault),
     dbContactHeadImage |-> NullScan,
     dbContactProfile |-> NullScan,
     dbContactChatRoom |->
        IF fault = "null_chatroom" THEN NullRoom
        ELSE Room(<<FriendName(1)>>, <<RoomXml(i)>>)]

\* A public account: even type, neither friend nor group.
OfficialRecord ==
    [userName |-> "gh_official", type |-> 0, secret |-> TRUE,
     dbContactRemark |-> RemarkCell(79, "none"),
     dbContactHeadImage |-> Scan(<<>>),
     dbContactProfile |-> Scan(<<>>),
     dbContactChatRoom |-> NullRoom]

\* A contact of odd type without secret: not a friend.
StrangerRecord ==
    [userName |-> "stranger0", type |-> 1, secret |-> FALSE,
     dbContactRemark |-> RemarkCell(83, "none"),
     dbContactHeadImage |-> Scan(<<>>),
     dbContactProfile |-> Scan(<<>>),
     dbContactChatRoom |-> NullRoom]

\* The Friend table of WCDB_Contact.sqlite with nf friends and ng groups,
\* the fault (if any) in the first row of each kind.
FriendTable(nf, ng, ff, gf) ==
    [i \in 1..nf |-> FriendRecord(i, IF i = 1 THEN ff ELSE "none")]
    \o <<OfficialRecord, StrangerRecord>>
    \o [i \in 1..ng |-> GroupRecord(i, IF i = 1 THEN gf ELSE "none")]

Unset == [set |-> FALSE, rows |-> <<>>]

\* A DataFrame: pd.DataFrame() has no columns; a query that ran has them,
\* also when it returned no row.
NoFrame == [columns |-> FALSE, rows |-> <<>>]
Frame(rows) == [columns |-> TRUE, rows |-> rows]

NoShards == [kinds |-> <<>>, orphan |-> FALSE]

-----------------------------------------------------------------------------
(* WeChat.output_data: the steps up to the contact tables *)

\* run_report: wx = WeChat() computes the window (lines 82-85), then
\* output_data starts.
StartRun ==
    /\ pc \in {"idle", "returned", "raised"}
    /\ runs < MaxRuns
    /\ runs' = runs + 1
    /\ year' = WindowYear(now)
    /\ st' = NewYearTimestamp(year')
    /\ et' = NewYearTimestamp(year' + 1)
    /\ wpc' = "done"
    /\ wxfile' = NoWxfile /\ myid' = "" /\ mymmb' = NoBlob
    /\ myname' = <<>> /\ myheadimg' = ""
    /\ friends' = Unset /\ groups' = Unset
    /\ msg_friend' = NoFrame /\ msg_group' = NoFrame
    /\ sessions' = NoFrame /\ shards' = NoShards /\ stats' = NoReport /\ output' = NoReport
    /\ exc' = NoExc
    /\ pc' = "prepare_wxfile"
    /\ UNCHANGED <<now, cache, tlvVars>>

\* prepare_wxfile, lines 87-100: an unreadable manifest ends the run
\* (pause_for_exit), a readable one sets self.wxfile.
PrepareWxfile ==
    /\ pc = "prepare_wxfile"
    /\ \/ /\ exc' = Raised("SystemExit", "prepare_wxfile", 98)
          /\ pc' = "raised"
          /\ UNCHANGED wxfile
       \/ /\ wxfile' \in Manifests
          /\ pc' = "prepare_myself_info"
          /\ UNCHANGED exc
    /\ UNCHANGED <<cache, runs, myid, mymmb, myname, myheadimg, friends,
                   groups, shards, localVars, windowVars, tlvVars>>

\* prepare_myself_info, lines 112-119: wxmm.iat[0] raises IndexError when no
\* settings file matches; otherwise the account id is the suffix of the
\* path and the file is read.
PrepareMyselfInfo ==
    /\ pc = "prepare_myself_info"
    /\ IF wxfile.settings = <<>>
       THEN /\ exc' = Raised("IndexError", "prepare_myself_info", 115)
            /\ pc' = "raised"
            /\ UNCHANGED <<myid, mymmb>>
       ELSE /\ myid' = Head(wxfile.settings)
            /\ mymmb' \in SettingsBlobs
            /\ pc' = "decode_myself"
            /\ UNCHANGED exc
    /\ UNCHANGED <<cache, runs, wxfile, myname, myheadimg, friends, groups,
                   shards, localVars, windowVars, tlvVars>>

\* Whether lines 119-121 run without an exception on settings blob b.
SettingsDecodable(b) ==
    /\ b.readable
    /\ Len(b.names) > 0
    /\ Utf8Decode(b.names[1]).ok
    /\ Len(b.headimgs) > 0

\* A plausible slip: the fallback of line 123 only when the file is unreadable.
IdentityOfUnguarded(b) ==
    IF b.readable /\ Len(b.names) > 0 /\ Len(b.headimgs) > 0
    THEN [name |-> Utf8Decode(b.names[1]).text, headimg |-> b.headimgs[1]]
    ELSE [name |-> DefaultName, headimg |-> ""]

\* lines 118-126: the decoded name and avatar, or the default of line 123.
IdentityOf(b) ==
    IF SettingsDecodable(b)
    THEN [name |-> Utf8Decode(b.names[1]).text, headimg |-> b.headimgs[1]]
    ELSE [name |-> DefaultName, headimg |-> ""]

\* prepare_myself_info, lines 118-126
DecodeMyself ==
    /\ pc = "decode_myself"
    /\ myname' = IdentityOf(mymmb).name
    /\ myheadimg' = IdentityOf(mymmb).headimg
    /\ pc' = "check_cache"
    /\ UNCHANGED <<cache, runs, wxfile, myid, mymmb, friends, groups,
                   shards, localVars, exc, windowVars, tlvVars>>

\* outfile.is_file(), line 250
IsFileNever(f) == FALSE

IsFile(f) == f.exists

\* output_data, lines 249-253: an existing file is parsed and returned.  (The
\* settings blob, a local of prepare_myself_info, is dropped here.)
CheckCache ==
    /\ pc = "check_cache"
    /\ mymmb' = NoBlob
    /\ IF IsFile(cache[myid])
       THEN IF JsonLoads(cache[myid].text).ok
            THEN /\ output' = JsonLoads(cache[myid].text).value
                 /\ pc' = "returned"
                 /\ UNCHANGED exc
            ELSE /\ exc' = Raised("JSONDecodeError", "output_data", 252)
                 /\ pc' = "raised"
                 /\ UNCHANGED output
       ELSE /\ pc' = "prepare_contact"
            /\ UNCHANGED <<output, exc>>
    /\ UNCHANGED <<cache, runs, wxfile, myid, myname, myheadimg, friends,
                   groups, shards, msg_friend, msg_group, sessions, stats,
                   windowVars, tlvVars>>

\* parse_remark applied to a dbContactRemark cell; len(None) raises TypeError.
ParseRemarkCell(c) ==
    IF c.null THEN [err |-> "TypeError", series |-> EmptyMap]
    ELSE ParseRemark(c.bytes)

\* parse_blob, lines 27-33: the first match or None; re.findall on None
\* raises TypeError.
parse_blob(c, matches) ==
    IF c.null THEN [err |-> "TypeError", result |-> None]
    ELSE IF Len(matches) > 0 THEN [err |-> "", result |-> matches[1]]
    ELSE [err |-> "", result |-> None]
parse_headimg(c) == parse_blob(c, c.matches)
parse_profile(c) == parse_blob(c, c.matches)
parse_founder(c) == parse_blob(c, c.founder)
parse_chatroom(c) == parse_blob(c, c.room)

\* The SELECT of lines 133-137 and of lines 138-142.
SelectFriends(table) ==
    SelectSeq(table, LAMBDA r : r.type % 2 = 1 /\ r.secret)
SelectGroups(table) ==
    SelectSeq(table, LAMBDA r : IsChatroom(r.userName))

\* username_to_md5 (lines 24-25) is kept symbolic: "Chat_" + md5(userName).
TableOf(u) == [chat |-> u]

\* lines 171-180: the friends table, or unset when any cell raises.
DecodeFriends(rows) ==
    IF \E i \in DOMAIN rows :
          \/ ParseRemarkCell(rows[i].dbContactRemark).err # ""
          \/ parse_headimg(rows[i].dbContactHeadImage).err # ""
          \/ parse_profile(rows[i].dbContactProfile).err # ""
    THEN Unset
    ELSE [set |-> TRUE,
          rows |-> [i \in DOMAIN rows |->
              [userName |-> rows[i].userName,
               type |-> rows[i].type,
               fields |-> ParseRemarkCell(rows[i].dbContactRemark).series,
               headimg |-> parse_headimg(rows[i].dbContactHeadImage).result,
               gender |-> parse_profile(rows[i].dbContactProfile).result,
               table |-> TableOf(rows[i].userName)]]]

\* lines 182-191: the groups table, or unset when any cell raises.  The
\* founder and chatroom patterns scan the same dbContactChatRoom blob.
DecodeGroups(rows) ==
    IF \E i \in DOMAIN rows :
          \/ ParseRemarkCell(rows[i].dbContactRemark).err # ""
          \/ parse_founder(rows[i].dbContactChatRoom).err # ""
    THEN Unset
    ELSE [set |-> TRUE,
          rows |-> [i \in DOMAIN rows |->
              [userName |-> rows[i].userName,
               type |-> rows[i].type,
               fields |-> ParseRemarkCell(rows[i].dbContactRemark).series,
               founder |-> parse_founder(rows[i].dbContactChatRoom).result,
               chatroom |-> parse_chatroom(rows[i].dbContactChatRoom).result,
               table |-> TableOf(rows[i].userName)]]]

\* prepare_contact, lines 128-191.  The lookup of the contact database
\* (line 130) and its queries (lines 132-142) are outside the try blocks.
PrepareContact ==
    /\ pc = "prepare_contact"
    /\ \/ /\ ~wxfile.contactDb
          /\ exc' = Raised("IndexError", "prepare_contact", 130)
          /\ pc' = "raised"
          /\ UNCHANGED <<friends, groups>>
       \/ /\ wxfile.contactDb
          /\ exc' = Raised("DatabaseError", "prepare_contact", 133)
          /\ pc' = "raised"
          /\ UNCHANGED <<friends, groups>>
       \/ /\ wxfile.contactDb
          /\ \E nf \in {1, MaxFriends}, ng \in {1, MaxGroups},
                ff \in FriendFaults, gf \in GroupFaults :
                LET table == FriendTable(nf, ng, ff, gf)
                IN  /\ friends' = DecodeFriends(SelectFriends(table))
                    /\ groups' = DecodeGroups(SelectGroups(table))
          /\ pc' = "get_message"
          /\ UNCHANGED exc
    /\ UNCHANGED <<cache, runs, wxfile, myid, mymmb, myname, myheadimg,
                   shards, localVars, windowVars, tlvVars>>

-----------------------------------------------------------------------------
(* WeChat.get_message, lines 193-230: inputs *)

\* A message shard: readable; or corrupt (its sqlite_sequence cannot be
\* read); or broken (sqlite_sequence lists tables whose query fails).
ShardKinds == {"ok", "corrupt", "broken"}

\* The Message column, as far as output_data reads it: a label standing for
\* the text, len(text.strip()), the length left by the substitution of line
\* 301, whether it holds a double quote, "refermsg" (and then the length of
\* appmsg/title), the md5 and cdnurl of its <emoji> element (0 and None
\* when parse_xml_msg gives None), whether it matches "username.*others".
Payload(label, n) ==
    [label |-> label, len |-> n, cliplen |-> n, quote |-> FALSE,
     refermsg |-> FALSE, titlelen |-> 0, md5 |-> 0, cdnurl |-> None,
     others |-> FALSE]

Message(chat, t, des, type, svrid, payload) ==
    [chat |-> chat, CreateTime |-> t, Des |-> des, Type |-> type,
     MesSvrID |-> svrid, Message |-> payload]

\* On how many days of the window friend i wrote, and how many messages
\* group i received and was sent.
FriendDays(i) == ((2 * i) % 3) + 1
GroupReceived(i) == (i % 2) + 1
GroupSent(i) == IF i = 1 THEN 1 ELSE i % 3

\* The rows of table Chat_<md5> of friend i, of nf friends, in a backup with
\* ns stickers and nc quotable texts: one row before the window and one at
\* its end; a received text on each of the friend's days, the first of them
\* quotable for the first nc friends; a sent text for the even friends; the
\* notice of a new friend for friend 1; the stickers sent in this chat.
FriendChat(i, nf, ns, nc, s, e) ==
    LET u == FriendName(i)
    IN  << Message(u, s - 1, 1, 1, 7, Payload("old", 3)),
           Message(u, e, 1, 1, 8, Payload("next", 4)) >>
        \o [d \in 1..FriendDays(i) |->
              Message(u, s + (d - 1) * 86400 + i, 1, 1, 10 * i + d,
                      IF d = 1 /\ i <= nc
                      THEN Payload("quote" \o ToString(i), 9 + (i % 8))
                      ELSE Payload("hi", 2))]
        \o (IF i % 2 = 0
            THEN <<Message(u, s + 60, 0, 1, 100 + i, Payload("yes", 3))>>
            ELSE <<>>)
        \o (IF i = 1
            THEN <<Message(u, s + 30, 0, 10000, 0,
                           Payload("You have added friend1", 22))>>
            ELSE <<>>)
        \o [k \in 1..Cardinality({j \in 1..ns : ((j - 1) % nf) + 1 = i}) |->
              LET j == (k - 1) * nf + i
              IN  Message(u, s + 3600 + j, 0, 47, 200 + j,
                          [Payload("emoji", 40) EXCEPT
                              !.md5 = j,
                              !.cdnurl = "http://emoji.qpic.cn/" \o ToString(j)])]

\* The rows of table Chat_<md5> of group i: received and sent texts; in
\* group 1 also the notice of an added member, sticker 1 once more, and a
\* sent quote of another message (type 49, refermsg).
GroupChat(i, s, e) ==
    LET u == GroupName(i)
    IN  << Message(u, s - 86400, 1, 1, 9, Payload("old", 3)) >>
        \o [k \in 1..GroupReceived(i) |->
              Message(u, s + k, 1, 1, 300 + 10 * i + k, Payload("hello", 5))]
        \o [k \in 1..GroupSent(i) |->
              Message(u, s + 86400 + k, 0, 1, 400 + 10 * i + k,
                      Payload("fine", 4))]
        \o (IF i = 1
            THEN << Message(u, s + 7, 1, 10002, 500,
                            [Payload("sysmsg", 60) EXCEPT !.others = TRUE]),
                    Message(u, s + 8, 0, 47, 501,
                            [Payload("emoji", 40) EXCEPT
                                !.md5 = 1,
                                !.cdnurl = "http://emoji.qpic.cn/1"]),
                    Message(u, s + 9, 0, 49, 502,
                            [Payload("appmsg", 90) EXCEPT
                                !.refermsg = TRUE, !.titlelen = 5]) >>
            ELSE <<>>)

RECURSIVE Flatten(_)
Flatten(ss) == IF ss = <<>> THEN <<>> ELSE Head(ss) \o Flatten(Tail(ss))

\* pd.concat of the per-contact frames, lines 225-226.
ConcatFrames(fs) ==
    [columns |-> \E i \in DOMAIN fs : fs[i].columns,
     rows |-> Flatten([i \in DOMAIN fs |-> fs[i].rows])]

\* The shard that lists the table of contact i of n, with k shards; 0 when
\* none does (the last contact, in a backup with an orphan).
ShardOf(i, n, k, orphan) ==
    IF orphan /\ i = n THEN 0 ELSE ((i - 1) % k) + 1

\* WHERE CreateTime >= st AND CreateTime < et, line 206
InWindow(m, s, e) == m.CreateTime >= s /\ m.CreateTime < e

\* get_message_by_id, lines 200-213: the rows of the table in the window;
\* pd.DataFrame() when the contact has no shard (connect(nan) raises) or
\* the query fails.
get_message_by_id(shard, kinds, table, s, e) ==
    IF shard = 0 THEN NoFrame
    ELSE IF kinds[shard] # "ok" THEN NoFrame
    ELSE Frame(SelectSeq(table, LAMBDA m : InWindow(m, s, e)))

\* output_data is left, by an exception or by return: its locals, and those
\* of the methods it called, are gone.
LocalsDropped ==
    /\ msg_friend' = NoFrame /\ msg_group' = NoFrame
    /\ sessions' = NoFrame /\ shards' = NoShards /\ stats' = NoReport

\* get_message, lines 215-230.  Only get_message_by_id catches: a shard
\* whose registry cannot be read (get_message_table, line 195), no shard at
\* all (pd.concat of nothing, line 218), an unset self.friends or
\* self.groups (lines 222-223), and frames without a CreateTime column
\* (lines 227-228) all raise.
GetMessage ==
    /\ pc = "get_message"
    /\ \E kinds \in [1..wxfile.shards -> ShardKinds] :
         LET early == IF \E k \in DOMAIN kinds : kinds[k] = "corrupt"
                      THEN Raised("DatabaseError", "get_message_table", 195)
                      ELSE IF wxfile.shards = 0
                           THEN Raised("ValueError", "get_message", 218)
                      ELSE IF ~friends.set
                           THEN Raised("AttributeError", "get_message", 222)
                      ELSE IF ~groups.set
                           THEN Raised("AttributeError", "get_message", 223)
                      ELSE NoExc
         IN  IF early # NoExc
             THEN /\ exc' = early
                  /\ pc' = "raised"
                  /\ LocalsDropped
             ELSE \E orphan \in BOOLEAN, ns \in {1, MaxStickers},
                     nc \in {0, MaxClips} :
                    LET nf == Len(friends.rows)
                        ng == Len(groups.rows)
                        mf == ConcatFrames([i \in 1..nf |->
                                 get_message_by_id(
                                     ShardOf(i, nf, wxfile.shards, orphan),
                                     kinds,
                                     FriendChat(i, nf, ns, nc, st, et),
                                     st, et)])
                        mg == ConcatFrames([i \in 1..ng |->
                                 get_message_by_id(
                                     ShardOf(i, ng, wxfile.shards, orphan),
                                     kinds, GroupChat(i, st, et), st, et)])
                    IN  IF ~mf.columns \/ ~mg.columns
                        THEN /\ exc' = Raised("KeyError", "get_message",
                                              IF ~mf.columns THEN 227
                                              ELSE 228)
                             /\ pc' = "raised"
                             /\ LocalsDropped
                        ELSE /\ shards' = [kinds |-> kinds,
                                           orphan |-> orphan]
                             /\ msg_friend' = mf
                             /\ msg_group' = mg
                             /\ pc' = "aggregate"
                             /\ UNCHANGED <<exc, sessions, stats>>
    /\ UNCHANGED <<cache, runs, selfVars, output, windowVars, tlvVars>>

-----------------------------------------------------------------------------
(* WeChat.get_session and the aggregation of output_data, lines 232-303 *)

EmojiHead == 10
FriendHead == 20
GroupHead == 10
EmojiShown == 4
FriendShown == 5
GroupShown == 5
ClipShown == 4

\* float('nan'), where a text may stand: the nickname of a row without one.
NaN == <<-1>>

\* DataFrame.head(n)
HeadN(s, n) == SubSeq(s, 1, IF n < Len(s) THEN n ELSE Len(s))

\* sort_values([k1, k2], ascending=False): by k1, then k2, largest first;
\* rows with equal keys keep their order.
SortDesc(s, k1, k2) ==
    LET Before(j, i) ==
            \/ s[j][k1] > s[i][k1]
            \/ s[j][k1] = s[i][k1] /\ s[j][k2] > s[i][k2]
            \/ s[j][k1] = s[i][k1] /\ s[j][k2] = s[i][k2] /\ j < i
        Rank(i) == Cardinality({j \in DOMAIN s : Before(j, i)})
    IN  [r \in 1..Len(s) |-> s[CHOOSE i \in DOMAIN s : Rank(i) = r - 1]]

\* The keys of a groupby in the order of the contact table.  (groupby sorts
\* its keys; the tables of this model list their contacts by ascending
\* userName, so the two orders agree.)
ChatsOf(rows, contacts) ==
    SelectSeq([i \in DOMAIN contacts |-> contacts[i].userName],
              LAMBDA u : \E k \in DOMAIN rows : rows[k].chat = u)

\* Series.dt.normalize(): the day a timestamp falls on.
DayOf(t) == t \div 86400

RECURSIVE SumSeq(_)
SumSeq(ns) == IF ns = <<>> THEN 0 ELSE Head(ns) + SumSeq(Tail(ns))

\* Series.str.len() of the stripped texts and of the quoted titles
TextLen(rows) == [k \in DOMAIN rows |-> rows[k].Message.len]
TitleLen(rows) == [k \in DOMAIN rows |-> rows[k].Message.titlelen]

\* The session table of session.db for contact tables fr and gr: one session
\* from before the window and, when the account was used ("some"), one per
\* friend, one per group and one with a public account.
SessionTable(kind, fr, gr, s) ==
    <<[UsrName |-> FriendName(1), CreateTime |-> s - 5]>>
    \o (IF kind = "some"
        THEN [i \in DOMAIN fr |->
                 [UsrName |-> fr[i].userName, CreateTime |-> s + i]]
             \o [i \in DOMAIN gr |->
                 [UsrName |-> gr[i].userName, CreateTime |-> s + 100 + i]]
             \o <<[UsrName |-> "gh_official", CreateTime |-> s + 200]>>
        ELSE <<>>)

\* get_session, lines 232-242: the sessions from st on; pd.DataFrame() when
\* session.db is not in the manifest or cannot be read.
SessionKinds == {"unreadable", "empty", "some"}

get_session(kind) ==
    IF ~wxfile.sessionDb \/ kind = "unreadable" THEN NoFrame
    ELSE Frame(SelectSeq(SessionTable(kind, friends.rows, groups.rows, st),
                         LAMBDA r : r.CreateTime >= st))

\* msg_self, line 229
MsgSelf(mf, mg) ==
    SelectSeq(mf, LAMBDA m : m.Des = 0) \o SelectSeq(mg, LAMBDA m : m.Des = 0)

\* lines 275-283: the stickers sent, counted per md5 with the number of
\* chats, ranked, and joined with the first URL known for the md5.
EmojiRank(ms) ==
    LET emoji == SelectSeq(ms, LAMBDA m : m.Type = 47)
        known == {m.Message.md5 : m \in Range(emoji)} \ {0}
        \* groupby("md5"): one row per md5, by ascending md5
        md5s == [r \in 1..Cardinality(known) |->
                   CHOOSE h \in known :
                      Cardinality({g \in known : g < h}) = r - 1]
        withUrl(h) == SelectSeq(emoji,
                        LAMBDA m : m.Message.md5 = h /\ m.Message.cdnurl # None)
        ranked == SortDesc(
                    [k \in 1..Len(md5s) |->
                        [md5 |-> md5s[k],
                         Message |-> Len(SelectSeq(emoji,
                             LAMBDA m : m.Message.md5 = md5s[k])),
                         chat |-> Cardinality({m.chat : m \in
                             {x \in Range(emoji) :
                                 x.Message.md5 = md5s[k]}})]],
                    "Message", "chat")
        joined == SelectSeq(ranked, LAMBDA r : withUrl(r.md5) # <<>>)
    IN  HeadN([k \in 1..Len(joined) |->
                 [Message |-> joined[k].Message, chat |-> joined[k].chat,
                  url |-> withUrl(joined[k].md5)[1].Message.cdnurl]],
              EmojiHead)

\* The value of column col in a row of a contact table; NaN when the row's
\* remark had no such field.
Field(row, col) ==
    IF [name |-> col] \in DOMAIN row.fields THEN row.fields[[name |-> col]]
    ELSE NaN

HasColumn(contacts, col) ==
    \E i \in DOMAIN contacts : [name |-> col] \in DOMAIN contacts[i].fields

RowOf(contacts, u) ==
    contacts[CHOOSE i \in DOMAIN contacts : contacts[i].userName = u]

\* lines 291-293: per friend the messages and the active days, most active
\* first, the first 20, joined with the friends table.
FriendAgg(mf, fr) ==
    LET chats == ChatsOf(mf, fr)
        agg == [k \in DOMAIN chats |->
                  [chat |-> chats[k],
                   Message |-> Len(SelectSeq(mf,
                       LAMBDA m : m.chat = chats[k])),
                   dt |-> Cardinality({DayOf(m.CreateTime) : m \in
                             {x \in Range(mf) : x.chat = chats[k]}})]]
        top == HeadN(SortDesc(agg, "dt", "Message"),
                     FriendHead)
    IN  [k \in DOMAIN top |->
           [chat |-> top[k].chat, Message |-> top[k].Message,
            dt |-> top[k].dt,
            nickname |-> Field(RowOf(fr, top[k].chat), "nickname"),
            headimg |-> RowOf(fr, top[k].chat).headimg]]

\* lines 296-298: per group the messages sent and received and their sum,
\* busiest first, the first 10, joined with the groups table.
GroupAgg(mg, gr) ==
    LET chats == ChatsOf(mg, gr)
        agg == [k \in DOMAIN chats |->
                  [chat |-> chats[k],
                   send |-> Len(SelectSeq(mg,
                       LAMBDA m : m.chat = chats[k] /\ m.Des = 0)),
                   receive |-> Len(SelectSeq(mg,
                       LAMBDA m : m.chat = chats[k] /\ m.Des = 1)),
                   messages |-> Len(SelectSeq(mg,
                       LAMBDA m : m.chat = chats[k]))]]
        top == HeadN(SortDesc(agg, "messages", "send"), GroupHead)
    IN  [k \in DOMAIN top |->
           [chat |-> top[k].chat, messages |-> top[k].messages,
            send |-> top[k].send,
            nickname |-> Field(RowOf(gr, top[k].chat), "nickname")]]

\* groups_new, line 287
GroupsNew(mg) ==
    SelectSeq(mg, LAMBDA m : m.Type = 10002 /\ m.Message.others)

\* pd.read_xml(chatroom, xpath="Member")["UserName"]: the members of the
\* <RoomData> block; no block (None) raises.
ReadMembers(xml) ==
    IF \E i \in 1..MaxGroups : xml = RoomXml(i)
    THEN RoomMembers(CHOOSE i \in 1..MaxGroups : xml = RoomXml(i))
    ELSE {}

\* lines 301-303: the received texts of friends whose length, emoticon
\* codes and blanks removed, lies between 9 and 17.
MsgClip(mf) ==
    LET clip == SelectSeq(mf, LAMBDA m :
                    /\ m.Type = 1
                    /\ m.Message.cliplen > 8
                    /\ m.Message.cliplen < 18
                    /\ m.Des > 0)
    IN  [k \in DOMAIN clip |-> clip[k].Message.label]

\* The first statement of lines 259-303 that raises, if one does: line 264
\* (no UsrName column in pd.DataFrame()), line 288 (a new group without
\* <RoomData> block), line 298 (no column "send": no group message was
\* sent).
AggregateError(mf, mg, gr, ss) ==
    IF ~ss.columns THEN Raised("KeyError", "output_data", 264)
    ELSE IF \E m \in Range(GroupsNew(mg)) : RowOf(gr, m.chat).chatroom = None
         THEN Raised("ValueError", "output_data", 288)
    ELSE IF \A m \in Range(mg) : m.Des # 0
         THEN Raised("KeyError", "output_data", 298)
    ELSE NoExc

\* lines 259-303
Aggregates(mf, mg, fr, gr, ss) ==
    LET self == MsgSelf(mf, mg)
    IN  [active_days |->
            Cardinality({DayOf(m.CreateTime) : m \in Range(mg) \cup Range(mf)}),
         session_count |-> Len(ss),
         session_count_group |->
            Len(SelectSeq(ss, LAMBDA r : IsChatroom(r.UsrName))),
         session_count_friend |->
            Len(SelectSeq(ss,
                LAMBDA r : \E i \in DOMAIN fr : fr[i].userName = r.UsrName)),
         message_count |-> Len(self),
         message_word_count |->
            SumSeq(TextLen(SelectSeq(self, LAMBDA m : m.Type = 1)))
            + SumSeq(TitleLen(SelectSeq(self, LAMBDA m : m.Message.refermsg))),
         emoji_rank |-> EmojiRank(self),
         friends_new |->
            Len(SelectSeq(mf, LAMBDA m : m.Type = 10000 /\ m.MesSvrID = 0
                                 /\ ~m.Message.quote)),
         groups_new |-> Len(GroupsNew(mg)),
         connections_new |->
            Cardinality(UNION {ReadMembers(RowOf(gr, m.chat).chatroom) :
                               m \in Range(GroupsNew(mg))}),
         msg_friend_agg |-> FriendAgg(mf, fr),
         msg_group_agg |-> GroupAgg(mg, gr),
         msg_clip |-> MsgClip(mf)]

\* output_data, lines 259-303, the call of get_session (line 262) included
Aggregate ==
    /\ pc = "aggregate"
    /\ \E kind \in SessionKinds :
         LET ss == get_session(kind)
             err == AggregateError(msg_friend.rows, msg_group.rows,
                                   groups.rows, ss)
         IN  IF err # NoExc
             THEN /\ exc' = err
                  /\ pc' = "raised"
                  /\ LocalsDropped
             ELSE /\ sessions' = ss
                  /\ stats' = Aggregates(msg_friend.rows, msg_group.rows,
                                         friends.rows, groups.rows, ss.rows)
                  /\ pc' = "assemble"
                  /\ UNCHANGED <<exc, shards, msg_friend, msg_group>>
    /\ UNCHANGED <<cache, runs, selfVars, output, windowVars, tlvVars>>

-----------------------------------------------------------------------------
(* output_data: the report and the cache file, lines 305-366 *)

\* The first entry of the dict display of lines 305-362 that raises, in the
\* order Python evaluates them: the division of line 314, iat[i] of lines
\* 326-328 for i < 4, column "nickname" and iat[i] of lines 339-342 and of
\* lines 354-356 for i < 5, sample(4) of line 361.
AssembleError(s, fr, gr) ==
    IF s.session_count = 0
    THEN Raised("ZeroDivisionError", "output_data", 314)
    ELSE IF Len(s.emoji_rank) < EmojiShown
         THEN Raised("IndexError", "output_data", 326)
    ELSE IF ~HasColumn(fr, "nickname")
         THEN Raised("KeyError", "output_data", 339)
    ELSE IF Len(s.msg_friend_agg) < FriendShown
         THEN Raised("IndexError", "output_data", 339)
    ELSE IF ~HasColumn(gr, "nickname")
         THEN Raised("KeyError", "output_data", 354)
    ELSE IF Len(s.msg_group_agg) < GroupShown
         THEN Raised("IndexError", "output_data", 354)
    ELSE IF Len(s.msg_clip) < ClipShown
         THEN Raised("ValueError", "output_data", 361)
    ELSE NoExc

\* a / b of two ints, kept as the fraction
Ratio(a, b) == [num |-> a, den |-> b]

\* lines 305-362, with the texts drawn by sample(4) given as their places in
\* msg_clip.  (The order of the drawn texts, random too, is not modelled:
\* they are listed in the order of msg_clip.)
Report(id, name, headimg, s, mf, mg, drawn) ==
    [myself |->
        [id |-> id, name |-> name, headimg |-> headimg,
         active_days |-> s.active_days,
         session |->
            [count |-> s.session_count,
             count_friend |-> s.session_count_friend,
             pct_friend |-> Ratio(s.session_count_friend, s.session_count),
             count_group |-> s.session_count_group,
             pct_group |-> Ratio(s.session_count_group, s.session_count)],
         message |->
            [count |-> s.message_count,
             count_group |-> Len(SelectSeq(mg, LAMBDA m : m.Des = 0)),
             count_friend |-> Len(SelectSeq(mf, LAMBDA m : m.Des = 0)),
             word_count |-> s.message_word_count],
         emoji |-> [i \in 1..EmojiShown |->
            [count |-> s.emoji_rank[i].Message,
             chat |-> s.emoji_rank[i].chat,
             url |-> s.emoji_rank[i].url]]],
     friend |->
        [new |-> [count |-> s.friends_new],
         top |-> [i \in 1..FriendShown |->
            [name |-> s.msg_friend_agg[i].nickname,
             headimg |-> s.msg_friend_agg[i].headimg,
             days |-> s.msg_friend_agg[i].dt,
             messages |-> s.msg_friend_agg[i].Message]]],
     group |->
        [new |-> [count |-> s.groups_new, connection |-> s.connections_new],
         top |-> [i \in 1..GroupShown |->
            [name |-> s.msg_group_agg[i].nickname,
             messages |-> s.msg_group_agg[i].messages,
             send |-> s.msg_group_agg[i].send]]],
     message_clip |->
        [k \in 1..Cardinality(drawn) |->
            s.msg_clip[CHOOSE i \in drawn :
                          Cardinality({j \in drawn : j < i}) = k - 1]]]

\* output_data, lines 305-362
Assemble ==
    /\ pc = "assemble"
    /\ LET err == AssembleError(stats, friends.rows, groups.rows)
       IN  IF err # NoExc
           THEN /\ exc' = err
                /\ pc' = "raised"
                /\ LocalsDropped
                /\ UNCHANGED output
           ELSE /\ \E drawn \in SUBSET (DOMAIN stats.msg_clip) :
                      /\ Cardinality(drawn) = ClipShown
                      /\ output' = Report(myid, myname, myheadimg, stats,
                                          msg_friend.rows, msg_group.rows,
                                          drawn)
                /\ pc' = "persist"
                /\ UNCHANGED <<exc, shards, msg_friend, msg_group, sessions,
                               stats>>
    /\ UNCHANGED <<cache, runs, selfVars, windowVars, tlvVars>>

\* What open(outfile, "w") and json.dump leave on disk when the write of
\* entry n + 1 fails: the file, with the first n entries.
Written(r, n) == [exists |-> TRUE, text |-> SubSeq(JsonDump(r), 1, n)]

\* Where a failing write is taken to stop: before anything reached the file,
\* or before the last of its four entries.
CutPoints == {0, 3}

\* output_data, lines 364-366: the file is created (or emptied) and the
\* report written into it entry by entry, then returned.  A write that fails
\* (OSError: the disk is full) leaves what was written before it.
Persist ==
    /\ pc = "persist"
    /\ \/ /\ cache' = [cache EXCEPT ![myid] = Written(output, 4)]
          /\ pc' = "returned"
          /\ UNCHANGED <<exc, output>>
       \/ /\ \E n \in CutPoints :
                cache' = [cache EXCEPT ![myid] = Written(output, n)]
          /\ exc' = Raised("OSError", "output_data", 365)
          /\ pc' = "raised"
          /\ output' = NoReport
    /\ LocalsDropped
    /\ UNCHANGED <<runs, selfVars, windowVars, tlvVars>>

-----------------------------------------------------------------------------
(* Specifications *)

WindowIdle ==
    /\ now = [year |-> 0, month |-> 0, day |-> 0]
    /\ year = 0 /\ st = 0 /\ et = 0 /\ wpc = "off"

TlvIdle ==
    /\ pairs = <<>> /\ cut = 0 /\ blob = <<>> /\ csor = 0
    /\ data = EmptyMap /\ tlvpc = "off" /\ tlverr = "" /\ series = EmptyMap

RunIdle ==
    /\ cache = [a \in Accounts |-> NoFile]
    /\ pc = "off" /\ runs = 0
    /\ wxfile = NoWxfile /\ myid = "" /\ mymmb = NoBlob
    /\ myname = <<>> /\ myheadimg = ""
    /\ friends = Unset /\ groups = Unset
    /\ msg_friend = NoFrame /\ msg_group = NoFrame
    /\ sessions = NoFrame /\ shards = NoShards /\ stats = NoReport /\ output = NoReport
    /\ exc = NoExc

InitW ==
    /\ now \in [year : FirstYear..LastYear, month : 1..12, day : {1, 15, 28}]
    /\ year = 0 /\ st = 0 /\ et = 0 /\ wpc = "init"
    /\ TlvIdle
    /\ RunIdle

NextW == InitWindow

SpecWindow == InitW /\ [][NextW]_vars

InitT ==
    /\ pairs \in PairSeqs
    /\ cut \in 0..Len(EncodeRemark(pairs))
    /\ blob = SubSeq(EncodeRemark(pairs), 1, Len(EncodeRemark(pairs)) - cut)
    /\ csor = 0 /\ data = EmptyMap /\ tlvpc = "loop" /\ tlverr = ""
    /\ series = EmptyMap
    /\ WindowIdle
    /\ RunIdle

NextT == ParseRemarkIter \/ ParseRemarkReturn

SpecTlv == InitT /\ [][NextT]_vars

\* No run was started; the working directory holds no report.
Init ==
    /\ now = RunInstant
    /\ year = 0 /\ st = 0 /\ et = 0 /\ wpc = "init"
    /\ TlvIdle
    /\ cache = [a \in Accounts |-> NoFile]
    /\ pc = "idle" /\ runs = 0
    /\ wxfile = NoWxfile /\ myid = "" /\ mymmb = NoBlob
    /\ myname = <<>> /\ myheadimg = ""
    /\ friends = Unset /\ groups = Unset
    /\ msg_friend = NoFrame /\ msg_group = NoFrame
    /\ sessions = NoFrame /\ shards = NoShards /\ stats = NoReport /\ output = NoReport
    /\ exc = NoExc

Next ==
    \/ StartRun
    \/ PrepareWxfile
    \/ PrepareMyselfInfo
    \/ DecodeMyself
    \/ CheckCache
    \/ PrepareContact
    \/ GetMessage
    \/ Aggregate
    \/ Assemble
    \/ Persist

Spec == Init /\ [][Next]_vars

-----------------------------------------------------------------------------
(* Claims about WeChat.__init__ (under SpecWindow) *)

\* C2: for every reference instant the window is [Jan 1 of W, Jan 1 of W+1)
\* with W the previous year when the month is January or February and the
\* current year otherwise; February 15 2024 gives [2023-01-01, 2024-01-01),
\* March 1 2024 gives [2024-01-01, 2025-01-01), and the end is one calendar
\* year (365 or 366 days) after the start.
C2_TimeWindow ==
    wpc = "done" =>
        LET W == IF now.month \in {1, 2} THEN now.year - 1 ELSE now.year
        IN  /\ year = W
            /\ st = NewYearTimestamp(W)
            /\ et = NewYearTimestamp(W + 1)
            /\ et - st = (IF IsLeap(W) THEN 366 ELSE 365) * 86400
            /\ (now = [year |-> 2024, month |-> 2, day |-> 15]
                  => st = 1672531200 /\ et = 1704067200)
            /\ (now = [year |-> 2024, month |-> 3, day |-> 1]
                  => st = 1704067200 /\ et = 1735689600)

C2_Witness ==
    /\ wpc = "done"
    /\ now = [year |-> 2024, month |-> 2, day |-> 15]
    /\ year = 2023

-----------------------------------------------------------------------------
(* Claims about parse_remark (under SpecTlv) *)

\* The cursor positions at which a record of the encoding of ps starts or
\* the encoding ends.
Boundaries(ps) == {Len(EncodeRemark(SubSeq(ps, 1, k))) : k \in 0..Len(ps)}

\* The mapping the first k pairs of ps stand for when a later pair with the
\* same tag replaces an earlier one.
LastWins(ps, k) ==
    [t \in {ps[i][1] : i \in 1..k} |->
        ps[CHOOSE i \in 1..k :
              /\ ps[i][1] = t
              /\ \A j \in (i + 1)..k : ps[j][1] # t][2]]

\* C3 as stated: decoding the encoding of a sequence of pairs gives a mapping
\* with exactly the encoded tags, EVERY pair's tag mapped to that pair's value.
C3_RoundTripEveryPair ==
    (cut = 0 /\ tlvpc = "returned") =>
        /\ DOMAIN series = {Label(pairs[i][1]) : i \in DOMAIN pairs}
        /\ \A i \in DOMAIN pairs : series[Label(pairs[i][1])] = pairs[i][2]

\* C3, amended: decoding the encoding of a sequence of (tag, text) pairs
\* never raises, moves the cursor from record boundary to record boundary
\* (2 + length bytes per record) and ends exactly at the end of the blob; the
\* mapping holds exactly the encoded tags, each mapped to the text of the
\* LAST pair that carries it; tags of the table appear under their name and
\* the others under the raw tag.
C3_RoundTrip ==
    (cut = 0 /\ tlvpc # "off") =>
        /\ tlvpc # "raised"
        /\ csor \in Boundaries(pairs)
        /\ \A k \in 0..Len(pairs) :
              csor = Len(EncodeRemark(SubSeq(pairs, 1, k)))
                 => data = LastWins(pairs, k)
        /\ tlvpc = "returned" =>
              /\ csor = Len(blob)
              /\ DOMAIN series = {Label(pairs[i][1]) : i \in DOMAIN pairs}
              /\ \A i \in DOMAIN pairs :
                    (\A j \in (i + 1)..Len(pairs) : pairs[j][1] # pairs[i][1])
                       => series[Label(pairs[i][1])] = pairs[i][2]
              /\ \A i \in DOMAIN pairs :
                    /\ pairs[i][1] = 10 => [name |-> "nickname"] \in DOMAIN series
                    /\ pairs[i][1] = 18 => [name |-> "id_new"] \in DOMAIN series
                    /\ pairs[i][1] = 7 => [tag |-> 7] \in DOMAIN series

\* A blob with the same tag twice, with different multi-byte texts, decoded.
C3_Witness ==
    /\ cut = 0
    /\ tlvpc = "returned"
    /\ Len(pairs) = 2
    /\ pairs[1][1] = pairs[2][1]
    /\ pairs[1][2] = <<24494>>
    /\ pairs[2][2] = <<233>>
    /\ series = ([name |-> "nickname"] :> <<233>>)

\* The blob is a truncated encoding: bytes were cut off, and not a whole
\* number of records.
Truncated == cut > 0 /\ Len(blob) \notin Boundaries(pairs)

\* C4: for a truncated encoding parse_remark does not raise and returns an
\* empty mapping, never a partially read or shortened value.
C4_TruncatedIsMalformed ==
    (Truncated /\ tlvpc # "loop") =>
        /\ tlvpc # "raised"
        /\ series = EmptyMap

-----------------------------------------------------------------------------
(* Claims about output_data *)

\* The steps of output_data that compute a report and write it.
Recomputing ==
    {"prepare_contact", "get_message", "aggregate", "assemble", "persist"}

\* A report file that a run wrote to its end.
Persisted(f) == f.exists /\ JsonLoads(f.text).ok

\* C1: once a run for an account has persisted its report file, a later run
\* for that account returns exactly the persisted report, never reaches
\* prepare_contact, get_message, get_session or the write of the file, and
\* leaves the file as it was.
C1_CacheShortCircuit ==
    /\ [](pc \in Recomputing => ~cache[myid].exists)
    /\ [][(pc = "check_cache" /\ Persisted(cache[myid]))
            => /\ pc' = "returned"
               /\ JsonDump(output') = cache[myid].text
               /\ cache' = cache]_vars
    /\ [][\A a \in Accounts : Persisted(cache[a]) => cache'[a] = cache[a]]_vars

\* A second run that returned the first run's report without computing
\* anything.
C1_Witness ==
    /\ runs = 2 /\ pc = "returned"
    /\ friends = Unset /\ groups = Unset
    /\ output # NoReport
    /\ Persisted(cache[myid])
    /\ JsonDump(output) = cache[myid].text

\* C5: a contact row whose blob columns cannot be decoded does not keep
\* prepare_contact from setting self.friends and self.groups, and get_message
\* runs on them.
C5_RowLocalFailure ==
    /\ pc = "get_message" => friends.set /\ groups.set
    /\ ~(pc = "raised" /\ exc.type = "AttributeError")

\* get_message has been left, normally or not, with both contact tables set
\* and at least one shard in the manifest.
GotMessages ==
    /\ friends.set /\ groups.set
    /\ wxfile.shards > 0
    /\ \/ pc = "aggregate"
       \/ pc = "raised" /\ exc.at \in {"get_message", "get_message_table"}

\* The rows that get_message holds for a contact.
RowsOf(frame, name) == SelectSeq(frame.rows, LAMBDA m : m.chat = name)

\* The contact's shard can be queried.
Healthy(i, n) ==
    LET h == ShardOf(i, n, wxfile.shards, shards.orphan)
    IN  h # 0 /\ shards.kinds[h] = "ok"

\* What C6 expects get_message to hold for each contact.
MessagesAsExpected(frame, table) ==
    \A i \in DOMAIN table.rows :
        LET rows == RowsOf(frame, table.rows[i].userName)
        IN  IF Healthy(i, Len(table.rows))
            THEN /\ rows # <<>>
                 /\ \A m \in Range(rows) : m.CreateTime >= st /\ m.CreateTime < et
            ELSE rows = <<>>

\* C6: whichever shards fail to open or to be queried, get_message completes;
\* a contact in a failing shard or in no shard has no message, a contact in a
\* healthy shard has its messages of the window.
C6_ShardFailureTolerated ==
    GotMessages =>
        /\ pc = "aggregate"
        /\ MessagesAsExpected(msg_friend, friends)
        /\ MessagesAsExpected(msg_group, groups)

\* C7: whatever the session set, the empty one included, output_data raises
\* nothing on it, and the two shares of the report are count_friend / count
\* and count_group / count, or 0 when count is 0.
C7_SessionShare ==
    /\ ~(pc = "raised" /\ exc = Raised("KeyError", "output_data", 264))
    /\ ~(pc = "raised" /\ exc = Raised("ZeroDivisionError", "output_data", 314))
    /\ (pc = "persist" /\ output.myself.session.count = 0)
          => /\ output.myself.session.pct_friend = 0
             /\ output.myself.session.pct_group = 0

\* The failures of the decoding of the settings file that C8 lists, the
\* missing settings file apart.
DecodeFails(b) ==
    \/ ~b.readable
    \/ b.names = <<>>
    \/ b.headimgs = <<>>
    \/ ~Utf8Decode(b.names[1]).ok

\* C8 as stated: no failure in prepare_myself_info, the missing settings file
\* included, reaches output_data; the run goes on with the default identity.
C8_AnyFailureFallsBack ==
    /\ ~(pc = "raised" /\ exc.at = "prepare_myself_info")
    /\ (pc = "check_cache" /\ DecodeFails(mymmb))
          => myname = DefaultName /\ myheadimg = ""

\* C8, amended: a settings file that cannot be read or decoded gives the
\* default identity and output_data goes on; only the manifest without a
\* settings file raises (IndexError, line 115), before any identity is set.
C8_DecodeFailureFallsBack ==
    /\ (pc = "check_cache" /\ DecodeFails(mymmb))
          => /\ myname = DefaultName /\ myheadimg = ""
             /\ exc = NoExc
    /\ (pc = "check_cache" /\ ~DecodeFails(mymmb))
          => /\ myname = Utf8Decode(mymmb.names[1]).text
             /\ myheadimg = mymmb.headimgs[1]
    /\ (pc = "raised" /\ exc.at = "prepare_myself_info")
          => /\ wxfile.settings = <<>>
             /\ exc = Raised("IndexError", "prepare_myself_info", 115)
    /\ (pc \in {"decode_myself", "check_cache"}) => wxfile.settings # <<>>

\* The name bytes of a readable settings file are not UTF-8, the avatar is
\* there, and the identity is the default.
C8_Witness ==
    /\ pc = "check_cache"
    /\ mymmb.readable /\ mymmb.names = << <<200>> >> /\ mymmb.headimgs # <<>>
    /\ myname = DefaultName /\ myheadimg = ""
    /\ exc = NoExc

\* C9: with one friend, one group and one sticker, and more generally with
\* fewer contacts, stickers or clips than a list shows, output_data completes
\* and the lists hold what there is.
C9_ShortListsComplete ==
    /\ [][(/\ pc = "assemble"
           /\ Len(friends.rows) = 1 /\ Len(groups.rows) = 1
           /\ Len(stats.emoji_rank) = 1
           /\ stats.session_count > 0)
             => pc' = "persist"]_vars
    /\ [](~(pc = "raised" /\ exc.at = "output_data"
              /\ exc.line \in {326, 339, 354, 361}
              /\ exc.type \in {"IndexError", "ValueError"}))

\* C10: the report file of an account is absent or holds a whole report, and
\* no run finds a file it cannot parse.
C10_CacheIntegrity ==
    /\ \A a \in Accounts : ~cache[a].exists \/ Persisted(cache[a])
    /\ ~(pc = "raised" /\ exc.type = "JSONDecodeError")

=============================================================================
